---- MODULE Spec2Model ----
(***************************************************************************)
(* Model of generate_weather_image (src/main.py), the two-pass             *)
(* "measure, then draw" layout of the weather image, and of its nested     *)
(* font loader load_system_font.                                           *)
(*                                                                         *)
(* Text is a sequence of tokens.  A token [k, n, g] is a run of n glyphs   *)
(* of glyph class g:                                                       *)
(*   k = "w"   a run of non-space characters (one textwrap chunk)          *)
(*   k = "h"   such a run whose last character is a hyphen that is         *)
(*             followed by letters: textwrap may break the line after it    *)
(*   k = "sp"  a run of n spaces                                           *)
(*   k = "nl"  the newline character that text_block.split('\n') cuts at   *)
(* The heading marker "**" is the token [k |-> "w", n |-> 2, g |-> "*"].    *)
(* Horizontal positions are kept doubled (x2 = 2 * x) because the code     *)
(* centres with a true division by 2.                                      *)
(***************************************************************************)
EXTENDS Integers, Sequences, FiniteSets, TLC

\* ---------------------------------------------------------------- bounds
\* total number of lines the caller puts into weather_texts
MaxLines == 2

\* ------------------------------------------------- constants of the code
width == 1200
padding_x == 50
padding_y == 30
line_spacing == 5
paragraph_spacing == 18
city_block_spacing == 10
footer_padding_y == 30
\* the minimum of wrap_width_chars
MinWrapChars == 50
\* len(test_string_for_width)
PangramChars == 43
\* font sizes, doubled (22.5 pt is 45)
TitleSize2 == 72
CityTitleSize2 == 62
BodySize2 == 45
FooterSize2 == 44

\* ------------------------------------------------------------ text tokens
Tok(k, n, g) == [k |-> k, n |-> n, g |-> g]
W(n, g) == Tok("w", n, g)
SP(n) == Tok("sp", n, " ")
NL == Tok("nl", 1, " ")
STARS == Tok("w", 2, "*")

Last(s) == s[Len(s)]
Front(s) == SubSeq(s, 1, Len(s) - 1)

RECURSIVE SumSeq(_)
SumSeq(s) == IF s = <<>> THEN 0 ELSE Head(s) + SumSeq(Tail(s))

Max2(a, b) == IF a >= b THEN a ELSE b

\* str.split('\n'): always at least one element
RECURSIVE SplitLinesFrom(_, _)
SplitLinesFrom(text, cur) ==
    IF text = <<>> THEN <<cur>>
    ELSE IF Head(text).k = "nl" THEN <<cur>> \o SplitLinesFrom(Tail(text), <<>>)
    ELSE SplitLinesFrom(Tail(text), Append(cur, Head(text)))

SplitLines(text) == SplitLinesFrom(text, <<>>)

\* str.strip(): leading and trailing whitespace removed
RECURSIVE LStrip(_)
LStrip(s) == IF s # <<>> /\ Head(s).k = "sp" THEN LStrip(Tail(s)) ELSE s

RECURSIVE RStrip(_)
RStrip(s) == IF s # <<>> /\ Last(s).k = "sp" THEN RStrip(Front(s)) ELSE s

Strip(s) == RStrip(LStrip(s))

\* line.strip().startswith('**') and line.strip().endswith('**')
IsCityTitle(line) ==
    LET s == Strip(line) IN
    /\ s # <<>>
    /\ Head(s).g = "*" /\ Head(s).n >= 2
    /\ Last(s).g = "*" /\ Last(s).n >= 2

\* line.strip().replace('**', ''): every pair of stars is removed
RECURSIVE RemoveStars(_)
RemoveStars(s) ==
    IF s = <<>> THEN <<>>
    ELSE IF Head(s).g = "*"
         THEN (IF Head(s).n % 2 = 0 THEN <<>> ELSE <<Tok("w", 1, "*")>>)
              \o RemoveStars(Tail(s))
         ELSE <<Head(s)>> \o RemoveStars(Tail(s))

CityName(line) == RemoveStars(Strip(line))

\* a faulty variant: line == "", without the strip
IsBlankExact(line) == line = <<>>

\* line.strip() == ""

IsBlank(line) == Strip(line) = <<>>

\* ------------------------------------------------------------ textwrap.wrap
\* A chunk (and a piece of a wrapped line) is a token that remembers where it
\* comes from: token i of the paragraph, characters from+1 .. from+n of it.
Chunk(line, i) ==
    [i |-> i, from |-> 0, n |-> line[i].n, k |-> line[i].k, g |-> line[i].g]

Chunks(line) == [i \in 1..Len(line) |-> Chunk(line, i)]

\* while chunks: if cur_len + len(chunks[-1]) <= width: cur_line.append(...)
RECURSIVE FillLine(_, _, _, _)
FillLine(chunks, cur, cur_len, w) ==
    IF chunks # <<>> /\ cur_len + Head(chunks).n <= w
    THEN FillLine(Tail(chunks), Append(cur, Head(chunks)), cur_len + Head(chunks).n, w)
    ELSE [cur |-> cur, len |-> cur_len, rest |-> chunks]

\* a variant: textwrap.wrap(..., break_long_words=False), which the code does
\* not pass: a chunk longer than the width goes whole onto a line of its own
KeepLongWord(f, w) ==
    IF f.rest # <<>> /\ Head(f.rest).n > w /\ f.cur = <<>>
    THEN [cur |-> <<Head(f.rest)>>, rest |-> Tail(f.rest)]
    ELSE [cur |-> f.cur, rest |-> f.rest]

\* TextWrapper._handle_long_word with break_long_words = True (the default):
\* the chunk that is longer than the width is cut at the room left on the line
HandleLongWord(f, w) ==
    IF f.rest # <<>> /\ Head(f.rest).n > w
    THEN LET c == Head(f.rest)
             space_left == IF w < 1 THEN 1 ELSE w - f.len
         IN [cur  |-> Append(f.cur, [c EXCEPT !.n = space_left]),
             rest |-> <<[c EXCEPT !.from = c.from + space_left,
                                  !.n = c.n - space_left]>> \o Tail(f.rest)]
    ELSE [cur |-> f.cur, rest |-> f.rest]

\* drop_whitespace: cur_line[-1].strip() == '' (true of the empty piece too)
DropTrailing(cur) ==
    IF cur # <<>> /\ (Last(cur).k = "sp" \/ Last(cur).n = 0) THEN Front(cur) ELSE cur

\* TextWrapper._wrap_chunks
RECURSIVE WrapChunks(_, _, _)
WrapChunks(chunks, lines, w) ==
    IF chunks = <<>> THEN lines
    ELSE LET c0  == IF lines # <<>> /\ Head(chunks).k = "sp" THEN Tail(chunks) ELSE chunks
             f   == FillLine(c0, <<>>, 0, w)
             g   == HandleLongWord(f, w)
             cur == DropTrailing(g.cur)
         IN WrapChunks(g.rest, IF cur # <<>> THEN Append(lines, cur) ELSE lines, w)

\* textwrap.wrap(line, width=w): the sequence of wrapped lines, each a
\* sequence of pieces
TextWrap(line, w) == WrapChunks(Chunks(line), <<>>, w)

\* ------------------------------------------------------------ font metrics
\* What ImageDraw.textbbox / textlength report depends on the font that was
\* resolved.  A font handle is [face, size2]; a face scales every glyph by
\* FaceEm percent.  Glyph classes at the body size (22.5) and 100 percent:
\*   "x" a lower-case letter, "W" a wide capital, "g" a letter with a
\*   descender, "*" an asterisk, " " a space.
GlyphAdvance(g) ==
    CASE g = "x" -> 11 [] g = "W" -> 21 [] g = "g" -> 11 [] g = "*" -> 9 [] OTHER -> 6

GlyphTop(g) ==
    CASE g = "x" -> 6 [] g = "W" -> 1 [] g = "g" -> 6 [] g = "*" -> 1 [] OTHER -> 0

GlyphBottom(g) ==
    CASE g = "x" -> 17 [] g = "W" -> 17 [] g = "g" -> 22 [] g = "*" -> 8 [] OTHER -> 0

\* the file "arial.ttf" of the working directory holds a face twice as wide
FaceEm(face) == IF face = "arial.ttf" THEN 220 ELSE 100

Scaled(v, font) == (v * font.size2 * FaceEm(font.face)) \div (BodySize2 * 100)

Inked(text) == {i \in 1..Len(text) : text[i].k # "sp" /\ text[i].n > 0}

RECURSIVE TextLength(_, _)
TextLength(text, font) ==
    IF text = <<>> THEN 0
    ELSE Head(text).n * Scaled(GlyphAdvance(Head(text).g), font)
         + TextLength(Tail(text), font)

\* d.textbbox((0,0), text, font=font): (left, top, right, bottom)
TextBBox(text, font) ==
    LET ink == Inked(text)
        tops == {Scaled(GlyphTop(text[i].g), font) : i \in ink}
        bots == {Scaled(GlyphBottom(text[i].g), font) : i \in ink}
    IN IF ink = {} THEN <<0, 0, TextLength(text, font), 0>>
       ELSE <<0, CHOOSE t \in tops : \A u \in tops : t <= u,
              TextLength(text, font),
              CHOOSE t \in bots : \A u \in bots : t >= u>>

BBoxHeight(bbox) == bbox[4] - bbox[2]
BBoxWidth(bbox) == bbox[3] - bbox[1]

\* "Current Weather & 3-Hour Forecast: Major US Cities"
title_text ==
    <<W(7, "x"), SP(1), W(7, "x"), SP(1), W(1, "x"), SP(1), W(6, "x"), SP(1),
      W(9, "x"), SP(1), W(5, "g"), SP(1), W(2, "W"), SP(1), W(6, "x")>>

\* "Weather data provided by OpenWeatherMap"
footer_text ==
    <<W(7, "x"), SP(1), W(4, "x"), SP(1), W(8, "g"), SP(1), W(2, "g"), SP(1),
      W(14, "g")>>

\* "the quick brown fox jumps over the lazy dog"
test_string_for_width ==
    <<W(3, "x"), SP(1), W(5, "g"), SP(1), W(5, "x"), SP(1), W(3, "x"), SP(1),
      W(5, "g"), SP(1), W(4, "x"), SP(1), W(3, "x"), SP(1), W(4, "g"), SP(1),
      W(3, "g")>>

\* ------------------------------------------------------------ font loading
font_paths(font_name) ==
    CASE font_name = "Arial Rounded MT Bold" ->
           <<"/Library/Fonts/Arial Rounded Bold.ttf",
             "/usr/share/fonts/truetype/msttcorefonts/ARLRDBD.TTF",
             "C:/Windows/Fonts/ARLRDBD.TTF",
             "ARLRDBD.TTF",
             "/Library/Fonts/Arial Rounded MT Bold.ttf">>
      [] font_name = "Arial Rounded MT Regular" ->
           <<"/Library/Fonts/Arial Rounded.ttf",
             "/usr/share/fonts/truetype/msttcorefonts/ARLRDR.TTF",
             "C:/Windows/Fonts/ARLRDR.TTF",
             "ARLRDR.TTF",
             "/Library/Fonts/Arial Rounded MT Regular.ttf">>
      [] font_name = "Arial-Bold" ->
           <<"/Library/Fonts/Arial Bold.ttf",
             "/usr/share/fonts/truetype/msttcorefonts/Arial_Bold.ttf",
             "C:/Windows/Fonts/arialbd.ttf",
             "arialbd.ttf">>
      [] font_name = "Arial-Regular" ->
           <<"/Library/Fonts/Arial.ttf",
             "/usr/share/fonts/truetype/msttcorefonts/Arial.ttf",
             "C:/Windows/Fonts/arial.ttf",
             "arial.ttf">>
      [] OTHER -> <<>>

FontNames ==
    {"Arial Rounded MT Bold", "Arial Rounded MT Regular", "Arial-Bold", "Arial-Regular"}

\* a file of the file system: absent, a font file that loads, or a file that
\* ImageFont.truetype cannot read (it raises OSError, which IOError names)
FileStates == {"missing", "ok", "corrupt"}

DefaultFont(size2) == [face |-> "default", size2 |-> size2]

\* the whole of load_system_font as a function of the files present
RECURSIVE FirstLoadable(_, _)
FirstLoadable(paths, files) ==
    IF paths = <<>> THEN "none"
    ELSE IF Head(paths) \in files THEN Head(paths)
    ELSE FirstLoadable(Tail(paths), files)

LoadSystemFont(font_name, size2, files) ==
    LET p == FirstLoadable(font_paths(font_name), files) IN
    IF p = "none" THEN DefaultFont(size2) ELSE [face |-> p, size2 |-> size2]

\* the sets of loadable font files the model runs generate_weather_image with
FontEnvs ==
    { {},
      {"C:/Windows/Fonts/ARLRDBD.TTF", "arial.ttf"} }

\* ------------------------------------------------------------ the caller
\* the lines format_weather_text and other callers put into a text block
HeadingLine == <<STARS, W(7, "x"), STARS>>
EmptyLine == <<>>
SpacesLine == <<SP(2)>>
ShortLine == <<W(2, "x"), SP(1), W(5, "g"), SP(1), W(5, "x"), SP(1)>>
MixedLine ==
    <<W(20, "x"), SP(1), Tok("h", 20, "x"), W(20, "x"), SP(1),
      W(30, "W"), SP(1), W(30, "W"), SP(1), W(30, "W")>>
LongWordLine == <<W(120, "x")>>

LineCatalogue ==
    {HeadingLine, EmptyLine, SpacesLine, ShortLine, MixedLine, LongWordLine}

VARIABLES
    pc,                \* the statement generate_weather_image is at
    weather_texts,     \* the argument: a sequence of text blocks
    fonts,             \* title_font, city_title_font, body_font, footer_font
    warnings,          \* font names load_system_font printed a warning for
    current_y,         \* measure pass cursor
    y_offset,          \* draw pass cursor
    title_height,
    wrap_width_chars,
    final_height,
    img,               \* the real canvas: <<>> or <<[w, h]>>
    bi, li,            \* position of the running pass: text block, line
    measured,          \* log: the elements the measure pass measured
    drawn,             \* log: the d.text calls on the real canvas
    line_log,          \* log: cursor before and after every source line
    wraps,             \* log: the textwrap.wrap calls
    result,            \* the bytes returned: <<>> or <<encoded image>>
    loader             \* one call of load_system_font, statement by statement

vars == <<pc, weather_texts, fonts, warnings, current_y, y_offset, title_height,
          wrap_width_chars, final_height, img, bi, li, measured, drawn, line_log,
          wraps, result, loader>>

LoaderIdle ==
    [pc |-> "idle", font_name |-> "", size2 |-> 0, files |-> <<>>, i |-> 0,
     ret |-> <<>>, printed |-> <<>>, raised |-> <<>>]

NoFonts == [title_font |-> DefaultFont(0), city_title_font |-> DefaultFont(0),
            body_font |-> DefaultFont(0), footer_font |-> DefaultFont(0)]

Init ==
    /\ pc = "build"
    /\ weather_texts = <<>>
    /\ fonts = NoFonts
    /\ warnings = <<>>
    /\ current_y = 0
    /\ y_offset = 0
    /\ title_height = 0
    /\ wrap_width_chars = 0
    /\ final_height = 0
    /\ img = <<>>
    /\ bi = 0
    /\ li = 0
    /\ measured = <<>>
    /\ drawn = <<>>
    /\ line_log = <<>>
    /\ wraps = <<>>
    /\ result = <<>>
    /\ loader = LoaderIdle

\* ------------------------------------------------------------ the caller
Blocks == 1..Len(weather_texts)
Lines(b) == SplitLines(weather_texts[b])
TotalLines == SumSeq([b \in Blocks |-> Len(Lines(b))])

\* main: formatted_texts.append(text) with a text of one line
AddTextBlock ==
    /\ pc = "build"
    /\ TotalLines < MaxLines
    /\ \E line \in LineCatalogue : weather_texts' = Append(weather_texts, line)
    /\ UNCHANGED <<pc, fonts, warnings, current_y, y_offset, title_height,
                   wrap_width_chars, final_height, img, bi, li, measured, drawn,
                   line_log, wraps, result, loader>>

\* the text being composed gets "\n" and one more line
AppendLine ==
    /\ pc = "build"
    /\ weather_texts # <<>>
    /\ TotalLines < MaxLines
    /\ \E line \in LineCatalogue :
         weather_texts' = [weather_texts EXCEPT ![Len(weather_texts)] = @ \o <<NL>> \o line]
    /\ UNCHANGED <<pc, fonts, warnings, current_y, y_offset, title_height,
                   wrap_width_chars, final_height, img, bi, li, measured, drawn,
                   line_log, wraps, result, loader>>

\* main: image_bytes = generate_weather_image(formatted_texts)
CallGenerate ==
    /\ pc = "build"
    /\ pc' = "fonts"
    /\ UNCHANGED <<weather_texts, fonts, warnings, current_y, y_offset, title_height,
                   wrap_width_chars, final_height, img, bi, li, measured, drawn,
                   line_log, wraps, result, loader>>

\* ------------------------------------------------------------ font loading
Warned(font_name, files) ==
    IF FirstLoadable(font_paths(font_name), files) = "none" THEN <<font_name>> ELSE <<>>

LoadFonts ==
    /\ pc = "fonts"
    /\ \E files \in FontEnvs :
         /\ fonts' = [title_font      |-> LoadSystemFont("Arial Rounded MT Bold", TitleSize2, files),
                      city_title_font |-> LoadSystemFont("Arial Rounded MT Bold", CityTitleSize2, files),
                      body_font       |-> LoadSystemFont("Arial-Regular", BodySize2, files),
                      footer_font     |-> LoadSystemFont("Arial-Bold", FooterSize2, files)]
         /\ warnings' = Warned("Arial Rounded MT Bold", files)
                        \o Warned("Arial Rounded MT Bold", files)
                        \o Warned("Arial-Regular", files)
                        \o Warned("Arial-Bold", files)
    /\ pc' = "measure_title"
    /\ UNCHANGED <<weather_texts, current_y, y_offset, title_height, wrap_width_chars,
                   final_height, img, bi, li, measured, drawn, line_log, wraps, result, loader>>

\* ------------------------------------------------------------ measure pass
max_text_block_width_pixels == width - 2 * padding_x

\* int(max_text_block_width_pixels / avg_char_width_pixels * 0.95) with
\* avg_char_width_pixels = textlength(pangram) / 43, then max(..., 50)
\* a faulty variant: without the max(..., 50)
WrapWidthCharsNoFloor(font) ==
    (max_text_block_width_pixels * PangramChars * 95)
        \div (TextLength(test_string_for_width, font) * 100)

\* wrap_width_chars
WrapWidthChars(font) ==
    Max2((max_text_block_width_pixels * PangramChars * 95)
            \div (TextLength(test_string_for_width, font) * 100),
         MinWrapChars)

MeasureTitle ==
    /\ pc = "measure_title"
    /\ title_height' = BBoxHeight(TextBBox(title_text, fonts.title_font))
    /\ current_y' = padding_y + title_height' + padding_y
    /\ wrap_width_chars' = WrapWidthChars(fonts.body_font)
    /\ measured' = <<[el |-> "title", b |-> 0, l |-> 0, j |-> 0, text |-> title_text,
                      y |-> padding_y, h |-> title_height']>>
    /\ bi' = 1 /\ li' = 1
    /\ pc' = "measure"
    /\ UNCHANGED <<weather_texts, fonts, warnings, y_offset, final_height, img, drawn,
                   line_log, wraps, result, loader>>

MeasureHeadingAdvance(h) == h + paragraph_spacing

\* a faulty variant: the wrapped lines are not added to current_y
MeasureLineAdvanceNone(h) == 0
MeasureLineAdvance(h) == h + line_spacing

MeasureBlankAdvance(line) == IF IsBlank(line) THEN paragraph_spacing ELSE 0

\* a faulty variant: only the first wrapped line is kept
MeasureWrappedLinesShortened(line) ==
    LET wl == TextWrap(line, wrap_width_chars)
    IN IF wl = <<>> THEN <<>> ELSE <<Head(wl)>>
MeasureWrappedLines(line) == TextWrap(line, wrap_width_chars)

\* for wrapped_line in wrapped_lines: the cursor before each wrapped line
RECURSIVE MeasureLay(_, _, _)
MeasureLay(wl, j, y) ==
    IF j > Len(wl) THEN <<>>
    ELSE LET h == BBoxHeight(TextBBox(wl[j], fonts.body_font))
         IN <<[j |-> j, text |-> wl[j], y |-> y, h |-> h]>>
            \o MeasureLay(wl, j + 1, y + MeasureLineAdvance(h))

MeasureLayEnd(lay, y) ==
    IF lay = <<>> THEN y ELSE Last(lay).y + MeasureLineAdvance(Last(lay).h)

\* the cursor after one line of a text block, as the measure pass moves it
MeasureLineEnd(line, y) ==
    IF IsCityTitle(line)
    THEN y + MeasureHeadingAdvance(BBoxHeight(TextBBox(CityName(line), fonts.city_title_font)))
    ELSE MeasureLayEnd(MeasureLay(MeasureWrappedLines(line), 1, y), y)
         + MeasureBlankAdvance(line)

MeasureCityTitle ==
    /\ pc = "measure"
    /\ bi <= Len(weather_texts) /\ li <= Len(Lines(bi))
    /\ LET line == Lines(bi)[li]
           city_name == CityName(line)
           h == BBoxHeight(TextBBox(city_name, fonts.city_title_font))
       IN /\ IsCityTitle(line)
          /\ current_y' = current_y + MeasureHeadingAdvance(h)
          /\ measured' = Append(measured, [el |-> "city", b |-> bi, l |-> li, j |-> 0,
                                           text |-> city_name, y |-> current_y, h |-> h])
          /\ line_log' = Append(line_log, [pass |-> "measure", b |-> bi, l |-> li,
                                           line |-> line, y0 |-> current_y,
                                           y1 |-> current_y', n |-> 1])
    /\ li' = li + 1
    /\ UNCHANGED <<pc, weather_texts, fonts, warnings, y_offset, title_height,
                   wrap_width_chars, final_height, img, bi, drawn, wraps, result, loader>>

MeasureBody ==
    /\ pc = "measure"
    /\ bi <= Len(weather_texts) /\ li <= Len(Lines(bi))
    /\ LET line == Lines(bi)[li]
           wrapped_lines == MeasureWrappedLines(line)
           lay == MeasureLay(wrapped_lines, 1, current_y)
       IN /\ ~IsCityTitle(line)
          /\ wraps' = Append(wraps, [pass |-> "measure", b |-> bi, l |-> li,
                                     line |-> line, width |-> wrap_width_chars,
                                     lines |-> wrapped_lines])
          /\ current_y' = MeasureLayEnd(lay, current_y) + MeasureBlankAdvance(line)
          /\ measured' = measured \o
                [j \in 1..Len(lay) |-> [el |-> "body", b |-> bi, l |-> li, j |-> j,
                                         text |-> lay[j].text, y |-> lay[j].y,
                                         h |-> lay[j].h]]
          /\ line_log' = Append(line_log, [pass |-> "measure", b |-> bi, l |-> li,
                                           line |-> line, y0 |-> current_y,
                                           y1 |-> current_y', n |-> Len(lay)])
    /\ li' = li + 1
    /\ UNCHANGED <<pc, weather_texts, fonts, warnings, y_offset, title_height,
                   wrap_width_chars, final_height, img, bi, drawn, result, loader>>

\* current_y += city_block_spacing, and the next text block
MeasureBlockEnd ==
    /\ pc = "measure"
    /\ bi <= Len(weather_texts) /\ li > Len(Lines(bi))
    /\ current_y' = current_y + city_block_spacing
    /\ bi' = bi + 1 /\ li' = 1
    /\ UNCHANGED <<pc, weather_texts, fonts, warnings, y_offset, title_height,
                   wrap_width_chars, final_height, img, measured, drawn, line_log,
                   wraps, result, loader>>

\* a faulty variant: the bottom padding is left out
FinalHeightNoBottomPadding(y) == y
FinalHeight(y) == y + padding_y

MeasureFooter ==
    /\ pc = "measure"
    /\ bi > Len(weather_texts)
    /\ LET h == BBoxHeight(TextBBox(footer_text, fonts.footer_font))
       IN /\ current_y' = current_y + footer_padding_y + h
          /\ final_height' = FinalHeight(current_y')
          /\ measured' = Append(measured, [el |-> "footer", b |-> 0, l |-> 0, j |-> 0,
                                           text |-> footer_text,
                                           y |-> current_y + footer_padding_y, h |-> h])
    /\ pc' = "create_image"
    /\ UNCHANGED <<weather_texts, fonts, warnings, y_offset, title_height,
                   wrap_width_chars, img, bi, li, drawn, line_log, wraps, result, loader>>

\* ------------------------------------------------------------ draw pass
\* img = Image.new('RGB', (width, int(final_height)), ...)
\* a faulty variant: the canvas is sized from the cursor, before the bottom padding
CanvasSizeFromCursor(h) == [w |-> width, h |-> h - padding_y]
\* (width, int(final_height)); final_height is a sum of integers
CanvasSize(h) == [w |-> width, h |-> h]

CreateImage ==
    /\ pc = "create_image"
    /\ img' = <<CanvasSize(final_height)>>
    /\ pc' = "draw_title"
    /\ UNCHANGED <<weather_texts, fonts, warnings, current_y, y_offset, title_height,
                   wrap_width_chars, final_height, bi, li, measured, drawn, line_log,
                   wraps, result, loader>>

\* (width - text_width) / 2, doubled
\* a faulty variant: drawn at padding_x instead of centred
LeftAlignedX2(text_width) == 2 * padding_x
CenteredX2(text_width) == width - text_width

HeadingX2 == 2 * padding_x
BodyX2 == 2 * padding_x

DrawTitle ==
    /\ pc = "draw_title"
    /\ img # <<>>
    /\ LET title_bbox == TextBBox(title_text, fonts.title_font)
           title_width == BBoxWidth(title_bbox)
       IN drawn' = Append(drawn, [el |-> "title", b |-> 0, l |-> 0, j |-> 0,
                                  text |-> title_text, x2 |-> CenteredX2(title_width),
                                  y |-> padding_y, h |-> BBoxHeight(title_bbox),
                                  font |-> fonts.title_font])
    /\ y_offset' = padding_y + title_height + padding_y
    /\ bi' = 1 /\ li' = 1
    /\ pc' = "draw"
    /\ UNCHANGED <<weather_texts, fonts, warnings, current_y, title_height,
                   wrap_width_chars, final_height, img, measured, line_log, wraps,
                   result, loader>>

\* a faulty variant: the cursor advances by the nominal font size, not the measured height
DrawHeadingAdvanceNominal(h) == (CityTitleSize2 \div 2) + paragraph_spacing
DrawHeadingAdvance(h) == h + paragraph_spacing

\* a faulty variant: the draw pass spaces lines by paragraph_spacing
DrawLineAdvanceParagraph(h) == h + paragraph_spacing
DrawLineAdvance(h) == h + line_spacing

\* a faulty variant: the draw pass tests line == ""
DrawBlankAdvanceExact(line) == IF IsBlankExact(line) THEN paragraph_spacing ELSE 0
DrawBlankAdvance(line) == IF IsBlank(line) THEN paragraph_spacing ELSE 0

\* a faulty variant: the draw pass derives its own width, without the minimum
DrawWrappedLinesNoFloor(line) == TextWrap(line, WrapWidthCharsNoFloor(fonts.body_font))
DrawWrappedLines(line) == TextWrap(line, wrap_width_chars)

RECURSIVE DrawLay(_, _, _)
DrawLay(wl, j, y) ==
    IF j > Len(wl) THEN <<>>
    ELSE LET h == BBoxHeight(TextBBox(wl[j], fonts.body_font))
         IN <<[j |-> j, text |-> wl[j], y |-> y, h |-> h]>>
            \o DrawLay(wl, j + 1, y + DrawLineAdvance(h))

DrawLayEnd(lay, y) ==
    IF lay = <<>> THEN y ELSE Last(lay).y + DrawLineAdvance(Last(lay).h)

DrawCityTitle ==
    /\ pc = "draw"
    /\ bi <= Len(weather_texts) /\ li <= Len(Lines(bi))
    /\ LET line == Lines(bi)[li]
           city_name == CityName(line)
           h == BBoxHeight(TextBBox(city_name, fonts.city_title_font))
       IN /\ IsCityTitle(line)
          /\ drawn' = Append(drawn, [el |-> "city", b |-> bi, l |-> li, j |-> 0,
                                     text |-> city_name, x2 |-> HeadingX2,
                                     y |-> y_offset, h |-> h,
                                     font |-> fonts.city_title_font])
          /\ y_offset' = y_offset + DrawHeadingAdvance(h)
          /\ line_log' = Append(line_log, [pass |-> "draw", b |-> bi, l |-> li,
                                           line |-> line, y0 |-> y_offset,
                                           y1 |-> y_offset', n |-> 1])
    /\ li' = li + 1
    /\ UNCHANGED <<pc, weather_texts, fonts, warnings, current_y, title_height,
                   wrap_width_chars, final_height, img, bi, measured, wraps, result, loader>>

DrawBody ==
    /\ pc = "draw"
    /\ bi <= Len(weather_texts) /\ li <= Len(Lines(bi))
    /\ LET line == Lines(bi)[li]
           wrapped_lines == DrawWrappedLines(line)
           lay == DrawLay(wrapped_lines, 1, y_offset)
       IN /\ ~IsCityTitle(line)
          /\ wraps' = Append(wraps, [pass |-> "draw", b |-> bi, l |-> li,
                                     line |-> line, width |-> wrap_width_chars,
                                     lines |-> wrapped_lines])
          /\ drawn' = drawn \o
                [j \in 1..Len(lay) |-> [el |-> "body", b |-> bi, l |-> li, j |-> j,
                                         text |-> lay[j].text, x2 |-> BodyX2,
                                         y |-> lay[j].y, h |-> lay[j].h,
                                         font |-> fonts.body_font]]
          /\ y_offset' = DrawLayEnd(lay, y_offset) + DrawBlankAdvance(line)
          /\ line_log' = Append(line_log, [pass |-> "draw", b |-> bi, l |-> li,
                                           line |-> line, y0 |-> y_offset,
                                           y1 |-> y_offset', n |-> Len(lay)])
    /\ li' = li + 1
    /\ UNCHANGED <<pc, weather_texts, fonts, warnings, current_y, title_height,
                   wrap_width_chars, final_height, img, bi, measured, result, loader>>

\* y_offset += city_block_spacing, and the next text block
DrawBlockEnd ==
    /\ pc = "draw"
    /\ bi <= Len(weather_texts) /\ li > Len(Lines(bi))
    /\ y_offset' = y_offset + city_block_spacing
    /\ bi' = bi + 1 /\ li' = 1
    /\ UNCHANGED <<pc, weather_texts, fonts, warnings, current_y, title_height,
                   wrap_width_chars, final_height, img, measured, drawn, line_log,
                   wraps, result, loader>>

DrawFooter ==
    /\ pc = "draw"
    /\ bi > Len(weather_texts)
    /\ LET footer_bbox == TextBBox(footer_text, fonts.footer_font)
           footer_width == BBoxWidth(footer_bbox)
       IN drawn' = Append(drawn, [el |-> "footer", b |-> 0, l |-> 0, j |-> 0,
                                  text |-> footer_text, x2 |-> CenteredX2(footer_width),
                                  y |-> y_offset + footer_padding_y,
                                  h |-> BBoxHeight(footer_bbox),
                                  font |-> fonts.footer_font])
    /\ pc' = "save"
    /\ UNCHANGED <<weather_texts, fonts, warnings, current_y, y_offset, title_height,
                   wrap_width_chars, final_height, img, bi, li, measured, line_log,
                   wraps, result, loader>>

\* img.save(img_byte_arr, format='PNG'); return img_byte_arr.getvalue()
SaveImage ==
    /\ pc = "save"
    /\ result' = <<[format |-> "PNG", size |-> img[1], drawn |-> drawn]>>
    /\ pc' = "done"
    /\ UNCHANGED <<weather_texts, fonts, warnings, current_y, y_offset, title_height,
                   wrap_width_chars, final_height, img, bi, li, measured, drawn,
                   line_log, wraps, loader>>

Next ==
    \/ AddTextBlock
    \/ AppendLine
    \/ CallGenerate
    \/ LoadFonts
    \/ MeasureTitle
    \/ MeasureCityTitle
    \/ MeasureBody
    \/ MeasureBlockEnd
    \/ MeasureFooter
    \/ CreateImage
    \/ DrawTitle
    \/ DrawCityTitle
    \/ DrawBody
    \/ DrawBlockEnd
    \/ DrawFooter
    \/ SaveImage

Spec == Init /\ [][Next]_vars

\* ---------------------------------------------- load_system_font, stepwise
\* the calls the code makes, and one with a name font_paths does not know
FontCalls ==
    {<<"Arial Rounded MT Bold", TitleSize2>>, <<"Arial Rounded MT Bold", CityTitleSize2>>,
     <<"Arial-Regular", BodySize2>>, <<"Arial-Bold", FooterSize2>>,
     <<"Arial Rounded MT Regular", BodySize2>>, <<"Helvetica", BodySize2>>}

InitFont ==
    /\ pc = "build"
    /\ weather_texts = <<>>
    /\ fonts = NoFonts
    /\ warnings = <<>>
    /\ current_y = 0
    /\ y_offset = 0
    /\ title_height = 0
    /\ wrap_width_chars = 0
    /\ final_height = 0
    /\ img = <<>>
    /\ bi = 0
    /\ li = 0
    /\ measured = <<>>
    /\ drawn = <<>>
    /\ line_log = <<>>
    /\ wraps = <<>>
    /\ result = <<>>
    /\ \E call \in FontCalls :
         \E files \in [1..Len(font_paths(call[1])) -> FileStates] :
            loader = [pc |-> "for", font_name |-> call[1], size2 |-> call[2],
                      files |-> files, i |-> 1, ret |-> <<>>, printed |-> <<>>,
                      raised |-> <<>>]

MainVars == <<pc, weather_texts, fonts, warnings, current_y, y_offset, title_height,
              wrap_width_chars, final_height, img, bi, li, measured, drawn, line_log,
              wraps, result>>

LoaderPaths == font_paths(loader.font_name)

\* ImageFont.truetype(path, size) on a file that exists: the font, or OSError
\* when the file cannot be read as a font
TruetypeRaises(file) == IF file = "ok" THEN "" ELSE "OSError"

\* except IOError: IOError is OSError, and catches its subclasses
\* a faulty variant: except FileNotFoundError
ExceptFileNotFoundError(exc) == exc = "FileNotFoundError"
ExceptIOError(exc) == exc \in {"OSError", "IOError", "FileNotFoundError", "PermissionError"}

\* if os.path.exists(path) is false: the next path
FontPathMissing ==
    /\ loader.pc = "for"
    /\ loader.i <= Len(LoaderPaths)
    /\ loader.files[loader.i] = "missing"
    /\ loader' = [loader EXCEPT !.i = @ + 1]
    /\ UNCHANGED MainVars

\* return ImageFont.truetype(path, size)
FontLoaded ==
    /\ loader.pc = "for"
    /\ loader.i <= Len(LoaderPaths)
    /\ loader.files[loader.i] # "missing"
    /\ TruetypeRaises(loader.files[loader.i]) = ""
    /\ loader' = [loader EXCEPT !.pc = "returned",
                                !.ret = <<[face |-> LoaderPaths[loader.i],
                                           size2 |-> loader.size2]>>]
    /\ UNCHANGED MainVars

\* truetype raises: continue when the except clause catches it, else the
\* exception leaves load_system_font
FontLoadFails ==
    /\ loader.pc = "for"
    /\ loader.i <= Len(LoaderPaths)
    /\ loader.files[loader.i] # "missing"
    /\ TruetypeRaises(loader.files[loader.i]) # ""
    /\ loader' = IF ExceptIOError(TruetypeRaises(loader.files[loader.i]))
                 THEN [loader EXCEPT !.i = @ + 1]
                 ELSE [loader EXCEPT !.pc = "raised",
                                     !.raised = <<TruetypeRaises(loader.files[loader.i])>>]
    /\ UNCHANGED MainVars

\* print(...); return ImageFont.load_default().font_variant(size=size)
FontFallback ==
    /\ loader.pc = "for"
    /\ loader.i > Len(LoaderPaths)
    /\ loader' = [loader EXCEPT !.pc = "returned",
                                !.printed = Append(@, loader.font_name),
                                !.ret = <<DefaultFont(loader.size2)>>]
    /\ UNCHANGED MainVars

NextFont ==
    \/ FontPathMissing
    \/ FontLoaded
    \/ FontLoadFails
    \/ FontFallback

SpecFont == InitFont /\ [][NextFont]_vars
\* ======================================================== properties
DrawnAll == pc \in {"save", "done"}

SameElement(e, f) == e.el = f.el /\ e.b = f.b /\ e.l = f.l /\ e.j = f.j

SpacingAfter(e) ==
    CASE e.el = "title" -> padding_y
      [] e.el = "city" -> paragraph_spacing
      [] e.el = "body" -> line_spacing
      [] OTHER -> 0

\* f is the element right after e with no blank line and no block end between
Adjacent(e, f) ==
    \/ e.el = "title" /\ f.b = 1 /\ f.l = 1
    \/ e.el # "title" /\ f.el # "footer" /\ e.b = f.b /\ f.l <= e.l + 1

\* C1: the draw pass cursor before the title, each heading, each wrapped body
\* line and the footer equals the measure pass cursor before the same element;
\* an element that directly follows another starts at that one's position plus
\* its measured height plus its spacing (and never earlier than that); the
\* final y_offset + footer_padding_y + footer height + padding_y is the
\* final_height the canvas was allocated with.
ThmC1 ==
    /\ Len(drawn) <= Len(measured)
    /\ \A i \in 1..Len(drawn) :
         /\ SameElement(drawn[i], measured[i])
         /\ drawn[i].y = measured[i].y
         /\ drawn[i].h = measured[i].h
    /\ \A i \in 1..(Len(drawn) - 1) :
         /\ drawn[i + 1].y >= drawn[i].y + drawn[i].h + SpacingAfter(drawn[i])
         /\ Adjacent(drawn[i], drawn[i + 1]) =>
              drawn[i + 1].y = drawn[i].y + drawn[i].h + SpacingAfter(drawn[i])
    /\ DrawnAll =>
         /\ Len(drawn) = Len(measured)
         /\ y_offset + footer_padding_y + Last(drawn).h + padding_y = final_height
         /\ img = <<[w |-> width, h |-> final_height]>>

WitC1 ==
    /\ pc = "done"
    /\ \E i \in 1..(Len(drawn) - 2) :
         /\ drawn[i].el = "city"
         /\ drawn[i + 1].el = "body" /\ drawn[i + 1].b = drawn[i].b
         /\ drawn[i + 2].el = "body" /\ drawn[i + 2].j = 2

\* C2 as stated: line wrapping is computed once, during measurement; the draw
\* pass never calls the wrapper.
CexC2 == \A i \in 1..Len(wraps) : wraps[i].pass = "measure"

\* C2 amended: the draw pass calls the wrapper again for every paragraph, with
\* the paragraph and the wrap_width_chars of the measure pass, and gets the
\* wrapped-line sequence the measure pass got; what it draws is exactly the
\* lines that were measured.
ThmC2 ==
    /\ \A i \in 1..Len(wraps) :
         wraps[i].pass = "draw" =>
           \E k \in 1..(i - 1) :
              /\ wraps[k].pass = "measure"
              /\ wraps[k].b = wraps[i].b /\ wraps[k].l = wraps[i].l
              /\ wraps[k].line = wraps[i].line
              /\ wraps[k].width = wraps[i].width
              /\ wraps[k].lines = wraps[i].lines
    /\ \A i \in 1..Len(drawn) :
         i <= Len(measured) /\ drawn[i].text = measured[i].text
    /\ DrawnAll =>
         \A k \in 1..Len(wraps) :
            wraps[k].pass = "measure" =>
              \E i \in 1..Len(wraps) :
                 /\ wraps[i].pass = "draw"
                 /\ wraps[i].b = wraps[k].b /\ wraps[i].l = wraps[k].l

WitC2 ==
    /\ pc = "done"
    /\ \E i \in 1..Len(wraps) : wraps[i].pass = "draw" /\ Len(wraps[i].lines) >= 3

\* ---- words and characters of a paragraph and of its wrapped lines
CharCount(text) == SumSeq([i \in 1..Len(text) |-> text[i].n])

IsSpace(c) == c.k = "sp" \/ c.n = 0

\* the whitespace-separated words of a string of pieces
RECURSIVE WordsFrom(_, _)
WordsFrom(text, cur) ==
    IF text = <<>> THEN (IF cur = <<>> THEN <<>> ELSE <<cur>>)
    ELSE IF IsSpace(Head(text))
         THEN (IF cur = <<>> THEN <<>> ELSE <<cur>>) \o WordsFrom(Tail(text), <<>>)
         ELSE WordsFrom(Tail(text), Append(cur, Head(text)))

Words(text) == WordsFrom(text, <<>>)

\* the words of " ".join(lines)
RECURSIVE JoinedWords(_)
JoinedWords(lines) ==
    IF lines = <<>> THEN <<>> ELSE Words(Head(lines)) \o JoinedWords(Tail(lines))

\* the non-space characters of a string, runs of one token put together again
RECURSIVE Glue(_, _)
Glue(text, acc) ==
    IF text = <<>> THEN acc
    ELSE LET c == Head(text) IN
         IF IsSpace(c) THEN Glue(Tail(text), acc)
         ELSE IF acc # <<>> /\ Last(acc).i = c.i /\ Last(acc).from + Last(acc).n = c.from
              THEN Glue(Tail(text), [acc EXCEPT ![Len(acc)].n = @ + c.n])
              ELSE Glue(Tail(text), Append(acc, c))

RECURSIVE Concat(_)
Concat(lines) == IF lines = <<>> THEN <<>> ELSE Head(lines) \o Concat(Tail(lines))

SingleLongWord(e) ==
    /\ Len(e.line) = 1 /\ e.line[1].k = "w"
    /\ e.line[1].n > e.width

\* C3 as stated: a paragraph that is one word longer than wrap_width_chars
\* comes back as exactly one line, the word itself.
CexC3 ==
    \A i \in 1..Len(wraps) :
       SingleLongWord(wraps[i]) => wraps[i].lines = <<Chunks(wraps[i].line)>>

\* C3 amended: such a word is cut at the character budget: it comes back as
\* ceil(n / wrap_width_chars) lines, each a piece of the word, every line but
\* the last exactly wrap_width_chars characters long and the last at most that,
\* and the pieces put together in order are the word.
ThmC3 ==
    \A i \in 1..Len(wraps) :
       SingleLongWord(wraps[i]) =>
         LET e == wraps[i]
             n == e.line[1].n
         IN /\ Len(e.lines) = (n + e.width - 1) \div e.width
            /\ Len(e.lines) >= 2
            /\ \A j \in 1..Len(e.lines) :
                 /\ Len(e.lines[j]) = 1
                 /\ e.lines[j][1].from = (j - 1) * e.width
                 /\ e.lines[j][1].n = (IF j < Len(e.lines) THEN e.width
                                       ELSE n - (j - 1) * e.width)
                 /\ e.lines[j][1].n <= e.width
            /\ Glue(Concat(e.lines), <<>>) = Chunks(e.line)

WitC3 ==
    /\ pc = "done"
    /\ \E i \in 1..Len(wraps) : SingleLongWord(wraps[i]) /\ Len(wraps[i].lines) = 3

\* C4 as stated: the wrapped lines joined with single spaces give back the
\* paragraph's whitespace-separated words, none dropped, duplicated or split.
CexC4 ==
    \A i \in 1..Len(wraps) :
       JoinedWords(wraps[i].lines) = Words(Chunks(wraps[i].line))

Breakable(line, w) ==
    \E t \in 1..Len(line) : line[t].k = "h" \/ (line[t].k = "w" /\ line[t].n > w)

\* C4 amended: the wrapped lines put together in order give back the
\* paragraph's non-space characters, none dropped or duplicated; a word is
\* split over two lines only at a hyphen inside it or when it is longer
\* than wrap_width_chars, so the joined lines give back the words of every
\* paragraph that has no such word.
ThmC4 ==
    \A i \in 1..Len(wraps) :
       LET e == wraps[i] IN
       /\ Glue(Concat(e.lines), <<>>) = Glue(Chunks(e.line), <<>>)
       /\ ~Breakable(e.line, e.width) =>
            JoinedWords(e.lines) = Words(Chunks(e.line))
       /\ \A j \in 1..(Len(e.lines) - 1) :
            LET a == Last(e.lines[j])
                c == Head(e.lines[j + 1])
            IN (~IsSpace(a) /\ c.i <= a.i + 1) =>
                  \/ a.i # c.i /\ a.k = "h"
                  \/ a.i = c.i /\ e.line[a.i].n > e.width

WitC4 ==
    /\ pc = "done"
    /\ \E i \in 1..Len(wraps) :
         /\ \E j \in 1..(Len(wraps[i].lines) - 1) : Last(wraps[i].lines[j]).k = "h"
         /\ \E j \in 1..(Len(wraps[i].lines) - 1) :
              Last(wraps[i].lines[j]).i # Head(wraps[i].lines[j + 1]).i
              /\ Last(wraps[i].lines[j]).k = "w"

\* C5 as stated: every wrapped line measures at most 1.10 times the pixel
\* budget width - 2 * padding_x.
CexC5 ==
    \A i \in 1..Len(measured) :
       measured[i].el = "body" =>
         10 * BBoxWidth(TextBBox(measured[i].text, fonts.body_font))
           <= 11 * (width - 2 * padding_x)

WidestAdvance(font) ==
    Scaled(GlyphAdvance("W"), font)

\* C5 amended: every wrapped line has at most wrap_width_chars characters,
\* the character budget max(floor(budget / average pangram glyph width * 0.95),
\* 50), so it measures at most wrap_width_chars times the widest glyph of the
\* body font; that can be more than 1.10 times the pixel budget.
ThmC5 ==
    /\ pc \notin {"build", "fonts", "measure_title"} =>
         /\ wrap_width_chars >= 50
         /\ \/ wrap_width_chars = 50
            \/ /\ wrap_width_chars * TextLength(test_string_for_width, fonts.body_font) * 100
                    <= (width - 2 * padding_x) * 43 * 95
               /\ (wrap_width_chars + 1) * TextLength(test_string_for_width, fonts.body_font) * 100
                    > (width - 2 * padding_x) * 43 * 95
         /\ wrap_width_chars = 50 =>
              51 * TextLength(test_string_for_width, fonts.body_font) * 100
                 > (width - 2 * padding_x) * 43 * 95
    /\ \A i \in 1..Len(measured) :
         measured[i].el = "body" =>
           /\ CharCount(measured[i].text) <= wrap_width_chars
           /\ CharCount(measured[i].text) >= 1
           /\ BBoxWidth(TextBBox(measured[i].text, fonts.body_font))
                <= wrap_width_chars * WidestAdvance(fonts.body_font)

WitC5 ==
    /\ pc = "done"
    /\ \E i \in 1..Len(measured) :
         /\ measured[i].el = "body"
         /\ 10 * BBoxWidth(TextBBox(measured[i].text, fonts.body_font))
              > 11 * (width - 2 * padding_x)
\* ---- the canvas height of a document, folded as the measure pass folds it
RECURSIVE BlockEnd(_, _, _)
BlockEnd(lines, l, y) ==
    IF l > Len(lines) THEN y + city_block_spacing
    ELSE BlockEnd(lines, l + 1, MeasureLineEnd(lines[l], y))

RECURSIVE BlocksEnd(_, _, _)
BlocksEnd(doc, b, y) ==
    IF b > Len(doc) THEN y ELSE BlocksEnd(doc, b + 1, BlockEnd(doc[b], 1, y))

HeightOf(doc) ==
    FinalHeight(BlocksEnd(doc, 1, padding_y + title_height + padding_y)
                + footer_padding_y
                + BBoxHeight(TextBBox(footer_text, fonts.footer_font)))

Document == [b \in Blocks |-> Lines(b)]

InsertAt(seq, pos, x) ==
    SubSeq(seq, 1, pos - 1) \o <<x>> \o SubSeq(seq, pos, Len(seq))

\* the documents with one more line p: in a text block, or as a block of its own
OneMore(doc, p) ==
    UNION {{[doc EXCEPT ![b] = InsertAt(doc[b], pos, p)] : pos \in 1..(Len(doc[b]) + 1)} :
            b \in 1..Len(doc)}
    \cup {InsertAt(doc, pos, <<p>>) : pos \in 1..(Len(doc) + 1)}

Paragraphs == {p \in LineCatalogue : ~IsBlank(p) /\ ~IsCityTitle(p)}

\* C6: with the fonts fixed, one more non-empty paragraph anywhere in the
\* document makes final_height strictly larger.
ThmC6 ==
    pc = "create_image" =>
      /\ final_height = HeightOf(Document)
      /\ \A p \in Paragraphs :
           \A doc \in OneMore(Document, p) : HeightOf(doc) > final_height

WitC6 ==
    /\ pc = "create_image"
    /\ \E i \in 1..Len(line_log) : line_log[i].line \in Paragraphs
    /\ Len(weather_texts) >= 2

\* C7: a line that is empty or all spaces wraps to no line, draws nothing and
\* moves the cursor by exactly paragraph_spacing, in the measure pass and in
\* the draw pass; N such lines in a row move it by N * paragraph_spacing.
ThmC7 ==
    /\ \A i \in 1..Len(line_log) :
         IsBlank(line_log[i].line) =>
           /\ line_log[i].n = 0
           /\ line_log[i].y1 = line_log[i].y0 + paragraph_spacing
           /\ \A k \in 1..Len(drawn) :
                ~(drawn[k].b = line_log[i].b /\ drawn[k].l = line_log[i].l)
           /\ \A k \in 1..Len(measured) :
                ~(measured[k].b = line_log[i].b /\ measured[k].l = line_log[i].l)
    /\ \A i \in 1..Len(wraps) : IsBlank(wraps[i].line) => wraps[i].lines = <<>>
    /\ \A i \in 1..Len(line_log) : \A k \in i..Len(line_log) :
         ( /\ line_log[i].pass = line_log[k].pass
           /\ line_log[i].b = line_log[k].b
           /\ \A m \in i..k : IsBlank(line_log[m].line) )
         => line_log[k].y1 = line_log[i].y0 + (k - i + 1) * paragraph_spacing

WitC7 ==
    /\ pc = "done"
    /\ \E i \in 1..(Len(line_log) - 1) :
         /\ line_log[i].pass = "draw" /\ line_log[i + 1].pass = "draw"
         /\ line_log[i].b = line_log[i + 1].b
         /\ line_log[i].line = EmptyLine
         /\ line_log[i + 1].line = SpacesLine

NothingToDraw == \A b \in Blocks : \A l \in 1..Len(Lines(b)) : IsBlank(Lines(b)[l])

\* C9: with no text block, or with text blocks of blank lines only, the call
\* runs to its end and returns an image of the title and the footer only, the
\* footer below the title and inside the canvas, and final_height at least
\* padding_y + title height + padding_y + footer_padding_y + footer height
\* + padding_y.
ThmC9 ==
    /\ (NothingToDraw /\ pc \notin {"build", "done"}) => ENABLED Next
    /\ (NothingToDraw /\ pc = "done") =>
         /\ Len(result) = 1
         /\ result[1].size = [w |-> width, h |-> final_height]
         /\ Len(drawn) = 2
         /\ drawn[1].el = "title" /\ drawn[1].text = title_text
         /\ drawn[2].el = "footer" /\ drawn[2].text = footer_text
         /\ result[1].drawn = drawn
         /\ drawn[2].y >= drawn[1].y + drawn[1].h + padding_y + footer_padding_y
         /\ drawn[2].y + drawn[2].h + padding_y <= final_height
         /\ final_height >= padding_y + drawn[1].h + padding_y + footer_padding_y
                            + drawn[2].h + padding_y
         /\ final_height > 0

WitC9 ==
    /\ pc = "done" /\ NothingToDraw
    /\ Len(weather_texts) = 2

WitC9Empty == pc = "done" /\ weather_texts = <<>>

\* C10: the title and the footer are drawn at x = (width - text width) / 2,
\* the text width being the d.textbbox width of that text in the font it is
\* drawn with; every heading and every wrapped body line is drawn at
\* x = padding_x.
ThmC10 ==
    \A i \in 1..Len(drawn) :
       LET e == drawn[i]
           d2 == e.x2 - (width - BBoxWidth(TextBBox(e.text, e.font)))
       IN /\ e.el \in {"title", "footer"} => (d2 <= 2 /\ d2 >= -2)
          /\ e.el = "title" => e.font = fonts.title_font
          /\ e.el = "footer" => e.font = fonts.footer_font
          /\ e.el \in {"city", "body"} => e.x2 = 2 * padding_x

WitC10 ==
    /\ pc = "done"
    /\ \E i \in 1..Len(drawn) : drawn[i].el = "city"
    /\ \E i \in 1..Len(drawn) : drawn[i].el = "body"
    /\ drawn[1].x2 # 2 * padding_x
    /\ Last(drawn).el = "footer" /\ Last(drawn).x2 # 2 * padding_x

LoadableIndexes == {i \in 1..Len(LoaderPaths) : loader.files[i] = "ok"}
FirstLoadableIndex == CHOOSE i \in LoadableIndexes : \A k \in LoadableIndexes : i <= k

\* C8: load_system_font never raises; it returns the font of the first
\* candidate path, in list order, that exists and loads, skipping the paths
\* that are missing or fail to load; when none does, or the name is unknown,
\* it prints one warning and returns the default font at the size asked for.
ThmC8 ==
    /\ loader.pc # "raised" /\ loader.raised = <<>>
    /\ loader.pc = "for" => ENABLED NextFont
    /\ loader.pc = "returned" =>
         /\ Len(loader.ret) = 1
         /\ loader.ret[1] = LoadSystemFont(loader.font_name, loader.size2,
                                           {LoaderPaths[i] : i \in LoadableIndexes})
         /\ IF LoadableIndexes = {}
            THEN /\ loader.ret[1] = [face |-> "default", size2 |-> loader.size2]
                 /\ loader.printed = <<loader.font_name>>
            ELSE /\ loader.ret[1] = [face |-> LoaderPaths[FirstLoadableIndex],
                                     size2 |-> loader.size2]
                 /\ loader.printed = <<>>

WitC8 ==
    /\ loader.pc = "returned"
    /\ LoadableIndexes # {}
    /\ \E i \in 1..(FirstLoadableIndex - 1) : loader.files[i] = "corrupt"
    /\ \E i \in 1..(FirstLoadableIndex - 1) : loader.files[i] = "missing"

WitC8Fallback ==
    /\ loader.pc = "returned"
    /\ LoadableIndexes = {}
    /\ \E i \in 1..Len(LoaderPaths) : loader.files[i] = "corrupt"

\* ---------------------------------------------------------------- C11
MeasurePassDone == measured # <<>> /\ Last(measured).el = "footer"
DrawPassDone == drawn # <<>> /\ Last(drawn).el = "footer"

\* the order of the steps, read off the state
StepOrder ==
    /\ ~MeasurePassDone => img = <<>>
    /\ img = <<>> => drawn = <<>>
    /\ ~DrawPassDone => result = <<>>
    /\ img # <<>> => img = <<[w |-> width, h |-> final_height]>>
    /\ result # <<>> => result[1].size = img[1] /\ result[1].drawn = drawn

\* what one step may change
StepEffect ==
    /\ measured' # measured => img = <<>> /\ drawn' = <<>> /\ img' = <<>>
    /\ img' # img => /\ img = <<>>
                     /\ MeasurePassDone /\ measured' = measured
                     /\ drawn = <<>> /\ drawn' = <<>>
                     /\ img' = <<[w |-> width, h |-> final_height]>>
    /\ img # <<>> => img' = img /\ final_height' = final_height
    /\ drawn' # drawn => img # <<>> /\ result = <<>> /\ result' = <<>>
    /\ result' # result => DrawPassDone /\ drawn' = drawn /\ result = <<>>
    /\ result # <<>> => UNCHANGED <<img, drawn, measured, result>>

\* C11: in every run of generate_weather_image the measure pass completes
\* before the canvas exists, the canvas is allocated once, with height
\* final_height, before anything is drawn, drawing completes before the
\* image is encoded, the measure pass draws nothing, and the canvas size
\* never changes after allocation.
ThmC11 == []StepOrder /\ [][StepEffect]_vars

\* a finished run: a non-empty document measured, drawn on the canvas, encoded
WitC11 ==
    /\ pc = "done"
    /\ result # <<>>
    /\ TotalLines >= 1
    /\ Len(measured) >= 3 /\ Len(drawn) >= 3
    /\ img = <<[w |-> width, h |-> final_height]>>

\* ---------------------------------------------------------------- C12
FooterHeight == BBoxHeight(TextBBox(footer_text, fonts.footer_font))

\* the band between the title and the footer
ContentTop == padding_y + title_height + padding_y
ContentBottom == final_height - (footer_padding_y + FooterHeight + padding_y)
FooterY == final_height - padding_y - FooterHeight

\* the rows of pixels d.text((x, y), text, font) can touch: the box of
\* textbbox((0, 0), text, font) moved down by y
InkTop(e) == e.y + TextBBox(e.text, e.font)[2]
InkBottom(e) == e.y + TextBBox(e.text, e.font)[4]

\* C12: every heading and body line is drawn at a y with
\* y >= padding_y + title height + padding_y and y + its measured height <=
\* final_height - (footer_padding_y + footer height + padding_y), the
\* footer is drawn at y = final_height - padding_y - footer height, and so
\* nothing is drawn below the canvas or over the footer.
ThmC12 ==
    \A i \in 1..Len(drawn) :
        LET e == drawn[i]
        IN /\ e.el \in {"city", "body"} =>
                /\ e.y >= ContentTop
                /\ e.y + e.h <= ContentBottom
                /\ e.y + e.h <= FooterY
                /\ InkBottom(e) <= FooterY
           /\ e.el = "footer" =>
                /\ e.y = FooterY
                /\ e.y + e.h = final_height - padding_y
                /\ e.h = FooterHeight
           /\ e.el = "title" => e.y + e.h = ContentTop - padding_y
           /\ InkTop(e) >= 0 /\ InkBottom(e) <= final_height

\* a finished drawing with a heading, a body line wrapped onto two rows, and the footer
WitC12 ==
    /\ DrawPassDone
    /\ \E i \in 1..Len(drawn) : drawn[i].el = "city" /\ drawn[i].h > 0
    /\ \E i \in 1..Len(drawn) : drawn[i].el = "body" /\ drawn[i].j = 2
    /\ \E i \in 1..Len(drawn) : drawn[i].el = "body" /\ drawn[i].y + drawn[i].h + line_spacing
                                                          + city_block_spacing = ContentBottom
====
